---------------------------- MODULE Spec2Model ----------------------------
(***************************************************************************)
(* A model of lib/core/utils/filter-html-attrs.js: the two global regular  *)
(* expressions with their lastIndex cursors, parseElements, matches,       *)
(* filterAttributes and filterHtmlAttrs.                                   *)
(*                                                                         *)
(* A JavaScript string is a sequence of one-character strings.  String     *)
(* offsets are 0-based as in JavaScript; s[i + 1] is the character at      *)
(* offset i.                                                               *)
(***************************************************************************)
EXTENDS Integers, Sequences, FiniteSets, TLC

VARIABLES
    tagLastIndex,   \* tagStringRegex.lastIndex (module-level, shared by calls)
    attrLastIndex,  \* attributeRegex.lastIndex (module-level, shared by calls)
    pc,             \* position inside filterHtmlAttrs
    htmlString,     \* argument of the current call
    filterAttrs,    \* argument of the current call
    elements,       \* parseElements: the elements pushed so far
    cur,            \* parseElements: the tag whose attributes are being scanned
    filteredHtml,   \* filterHtmlAttrs: the accumulator string
    k,              \* filterHtmlAttrs: forEach position, 1-based
    result,         \* the value returned by the last finished call
    refilters       \* how often the running call chain fed a result back in

vars == <<tagLastIndex, attrLastIndex, pc, htmlString, filterAttrs, elements,
          cur, filteredHtml, k, result, refilters>>

---------------------------------------------------------------------------
(* Characters and the character classes the regular expressions use.       *)

DQ == "\""
SQ == "'"

\* The backtick character, which a string literal of this module cannot hold:
\* the one character of the model that is written as a word.
BT == "backtick"

\* \s
WhiteSpace == {" ", "\t", "\n"}

UpperCase == <<"A", "B", "C", "D", "E", "F", "G", "H", "I", "J", "K", "L", "M",
               "N", "O", "P", "Q", "R", "S", "T", "U", "V", "W", "X", "Y", "Z">>

LowerCase == <<"a", "b", "c", "d", "e", "f", "g", "h", "i", "j", "k", "l", "m",
               "n", "o", "p", "q", "r", "s", "t", "u", "v", "w", "x", "y", "z">>

Digits == {"0", "1", "2", "3", "4", "5", "6", "7", "8", "9"}

\* \w
WordChars == {UpperCase[n] : n \in DOMAIN UpperCase}
                 \cup {LowerCase[n] : n \in DOMAIN LowerCase}
                 \cup Digits \cup {"_"}

Min(S) == CHOOSE x \in S : \A y \in S : x <= y

\* The character at 0-based offset i, "" outside the string.
CharAt(s, i) == IF i >= 0 /\ i < Len(s) THEN s[i + 1] ELSE ""

\* String.prototype.substring(from, to) for 0 <= from.
Substring(s, from, to) ==
    LET t == IF to > Len(s) THEN Len(s) ELSE to
    IN  IF from >= t THEN <<>> ELSE SubSeq(s, from + 1, t)

ToLowerChar(c) ==
    IF \E n \in DOMAIN UpperCase : UpperCase[n] = c
    THEN LowerCase[CHOOSE n \in DOMAIN UpperCase : UpperCase[n] = c]
    ELSE c

\* String.prototype.toLowerCase
ToLowerCase(s) == [n \in DOMAIN s |-> ToLowerChar(s[n])]

\* String.prototype.trim
Trim(s) ==
    LET keep == {n \in DOMAIN s : s[n] \notin WhiteSpace}
    IN  IF keep = {} THEN <<>>
        ELSE SubSeq(s, Min(keep), CHOOSE x \in keep : \A y \in keep : y <= x)

\* String.prototype.indexOf(pat): the first offset where pat occurs, or -1.
IndexOf(s, pat) ==
    LET hits == {i \in 0..(Len(s) - Len(pat)) :
                     SubSeq(s, i + 1, i + Len(pat)) = pat}
    IN  IF hits = {} THEN -1 ELSE Min(hits)

RECURSIVE JoinFrom(_, _)
JoinFrom(strs, n) ==
    IF n > Len(strs) THEN <<>>
    ELSE IF n = Len(strs) THEN strs[n]
    ELSE strs[n] \o <<" ">> \o JoinFrom(strs, n + 1)

\* Array.prototype.join(' ')
Join(strs) == JoinFrom(strs, 1)

\* GetSubstitution for a string pattern (no capture groups): a dollar sign
\* followed by a dollar sign is one dollar sign, followed by an ampersand the
\* matched text, by a backtick the text before the match, by a single quote the
\* text after it; any other dollar sign stands for itself.
RECURSIVE Expand(_, _, _, _, _)
Expand(repl, n, matched, before, after) ==
    IF n > Len(repl) THEN <<>>
    ELSE IF repl[n] = "$" /\ n < Len(repl) /\ repl[n + 1] \in {"$", "&", BT, SQ}
    THEN (CASE repl[n + 1] = "$" -> <<"$">>
            [] repl[n + 1] = "&" -> matched
            [] repl[n + 1] = BT -> before
            [] OTHER -> after)
         \o Expand(repl, n + 2, matched, before, after)
    ELSE <<repl[n]>> \o Expand(repl, n + 1, matched, before, after)

\* String.prototype.replace(pat, repl) with a string pattern: the first
\* occurrence only, the replacement text expanded.
Replace(s, pat, repl) ==
    LET at == IndexOf(s, pat)
    IN  IF at < 0 THEN s
        ELSE LET before == Substring(s, 0, at)
                 after == Substring(s, at + Len(pat), Len(s))
             IN  before \o Expand(repl, 1, pat, before, after) \o after

---------------------------------------------------------------------------
\* tagStringRegex = /<([^>]+?)\/?>/g

\* Whether the pattern matches with its opening bracket at offset i: one
\* character that is not a closing bracket, then a closing bracket somewhere.
TagMatchesAt(str, i) ==
    /\ CharAt(str, i) = "<"
    /\ CharAt(str, i + 1) \notin {">", ""}
    /\ \E p \in (i + 2)..(Len(str) - 1) : str[p + 1] = ">"

\* The offset of the closing bracket of the match that starts at offset i.
TagCloseAt(str, i) == Min({p \in (i + 2)..(Len(str) - 1) : str[p + 1] = ">"})

\* The end (exclusive) of group 1: the lazy group gives a slash right before
\* the closing bracket to the optional slash, unless the group would be empty.
TagGroupEnd(str, i, p) ==
    IF CharAt(str, p - 1) = "/" /\ p - 2 >= i + 1 THEN p - 1 ELSE p

NoTagMatch == [found |-> FALSE, m0 |-> <<>>, m1 |-> <<>>, lastIndex |-> 0]

\* tagStringRegex.exec(str) with the cursor at lastIndex: the leftmost match
\* at or after the cursor and the new cursor; no match resets the cursor.
TagExec(str, lastIndex) ==
    LET starts == {i \in lastIndex..(Len(str) - 1) : TagMatchesAt(str, i)}
    IN  IF starts = {} THEN NoTagMatch
        ELSE LET i == Min(starts)
                 p == TagCloseAt(str, i)
             IN  [found |-> TRUE,
                  m0 |-> Substring(str, i, p + 1),
                  m1 |-> Substring(str, i + 1, TagGroupEnd(str, i, p)),
                  lastIndex |-> p + 1]

---------------------------------------------------------------------------
\* attributeRegex: a name, an equals sign and a double quoted (group 2),
\* single quoted (group 3) or unquoted (group 4) value; or else a bare name
\* (group 5) that starts at a word boundary.

\* The offset after the longest run, from offset i, of characters not in stop.
RunEnd(str, i, stop) ==
    Min({e \in i..Len(str) : e = Len(str) \/ str[e + 1] \in stop})

\* First alternative at offset i: a name, the longest run of [^\s=], and "=".
ValuedAt(str, i) ==
    LET e == RunEnd(str, i, WhiteSpace \cup {"="})
    IN  e > i /\ CharAt(str, e) = "="

\* The closing quotes q after the opening quote at offset v.
QuoteCloses(str, v, q) == {c \in (v + 1)..(Len(str) - 1) : str[c + 1] = q}

\* The groups of the first alternative matched at offset i. A quoted value
\* needs its closing quote; without one the unquoted group matches, empty.
ValuedGroups(str, i) ==
    LET e == RunEnd(str, i, WhiteSpace \cup {"="})
        v == e + 1
        quoted(q) == CharAt(str, v) = q /\ QuoteCloses(str, v, q) # {}
        close(q) == Min(QuoteCloses(str, v, q))
        bare == RunEnd(str, v, WhiteSpace \cup {DQ, SQ})
        end == IF quoted(DQ) THEN close(DQ) + 1
               ELSE IF quoted(SQ) THEN close(SQ) + 1
               ELSE bare
    IN  [found |-> TRUE,
         g0 |-> Substring(str, i, end),
         g1 |-> Substring(str, i, e),
         g2 |-> IF quoted(DQ) THEN Substring(str, v + 1, close(DQ)) ELSE <<>>,
         g3 |-> IF ~quoted(DQ) /\ quoted(SQ)
                THEN Substring(str, v + 1, close(SQ)) ELSE <<>>,
         g4 |-> IF ~quoted(DQ) /\ ~quoted(SQ)
                THEN Substring(str, v, bare) ELSE <<>>,
         g5 |-> <<>>,
         lastIndex |-> end]

\* \b at offset i
WordBoundary(str, i) ==
    (CharAt(str, i - 1) \in WordChars) # (CharAt(str, i) \in WordChars)

\* Second alternative at offset i: a word boundary, then the longest run of
\* \S; the closing boundary-or-no-boundary test holds at every offset.
BareAt(str, i) ==
    WordBoundary(str, i) /\ CharAt(str, i) \notin WhiteSpace \cup {""}

BareGroups(str, i) ==
    LET end == RunEnd(str, i, WhiteSpace)
    IN  [found |-> TRUE,
         g0 |-> Substring(str, i, end),
         g1 |-> <<>>, g2 |-> <<>>, g3 |-> <<>>, g4 |-> <<>>,
         g5 |-> Substring(str, i, end),
         lastIndex |-> end]

NoAttrMatch == [found |-> FALSE, g0 |-> <<>>, g1 |-> <<>>, g2 |-> <<>>,
                g3 |-> <<>>, g4 |-> <<>>, g5 |-> <<>>, lastIndex |-> 0]

\* attributeRegex.exec(str) with the cursor at lastIndex: the leftmost offset
\* where an alternative matches, the first alternative tried first.
AttrExec(str, lastIndex) ==
    LET starts == {i \in lastIndex..(Len(str) - 1) :
                       ValuedAt(str, i) \/ BareAt(str, i)}
    IN  IF starts = {} THEN NoAttrMatch
        ELSE LET i == Min(starts)
             IN  IF ValuedAt(str, i) THEN ValuedGroups(str, i)
                 ELSE BareGroups(str, i)

\* a || b for strings: the empty string is falsy.
Or(a, b) == IF a # <<>> THEN a ELSE b

---------------------------------------------------------------------------
(* Matchers and rule sets.  A matcher is a record of one shape; type is    *)
(* what typeof and Array.isArray tell apart.  A structured matcher holds   *)
(* nodeName (empty: absent or falsy) and attributes, its keys in order.    *)
(* A rule set is the caller's object, its own keys in order, or undefined. *)

Undefined == [type |-> "undefined", bool |-> FALSE, str |-> <<>>,
              list |-> <<>>, nodeName |-> <<>>, attributes |-> <<>>]

MBool(b) == [Undefined EXCEPT !.type = "boolean", !.bool = b]

MStr(str) == [Undefined EXCEPT !.type = "string", !.str = str]

MArr(list) == [Undefined EXCEPT !.type = "array", !.list = list]

MObj(nodeName, attributes) ==
    [Undefined EXCEPT !.type = "object", !.nodeName = nodeName,
                      !.attributes = attributes]

Entry(key, matcher) == [key |-> key, matcher |-> matcher]

NoRules == [defined |-> FALSE, entries |-> <<>>]

Rules(entries) == [defined |-> TRUE, entries |-> entries]

\* !matcher: undefined, false and the empty string are falsy.
Falsy(matcher) ==
    \/ matcher.type = "undefined"
    \/ matcher.type = "boolean" /\ ~matcher.bool
    \/ matcher.type = "string" /\ matcher.str = <<>>

\* attrs[key]: the rule set's own property. (The two lowercase names Object
\* .prototype would answer for never arrive here: see AttrMapGet.)
RuleGet(attrs, key) ==
    LET own == {n \in DOMAIN attrs.entries : attrs.entries[n].key = key}
    IN  IF own = {} THEN Undefined ELSE attrs.entries[Min(own)].matcher

\* String(Object) and String(Object.prototype): the property keys that the
\* inherited values of attrMap turn into.
ObjectFunctionKey == <<"f", "u", "n", "c", "t", "i", "o", "n", " ", "O", "b", "j", "e", "c", "t", "(", ")", " ", "{", " ", "[", "n", "a", "t", "i", "v", "e", " ", "c", "o", "d", "e", "]", " ", "}">>

ObjectPrototypeKey == <<"[", "o", "b", "j", "e", "c", "t", " ", "O", "b", "j", "e", "c", "t", "]">>

\* attrMap[name], the empty string standing for undefined. attrMap is an
\* object literal, so besides its own for and class it answers for the names
\* it inherits from Object.prototype; constructor and __proto__ are the two an
\* attribute name, which is lowercased, can be.
AttrMapGet(name) ==
    CASE name = <<"f", "o", "r">> -> <<"h", "t", "m", "l", "F", "o", "r">>
      [] name = <<"c", "l", "a", "s", "s">> -> <<"c", "l", "a", "s", "s", "N", "a", "m", "e">>
      [] name = <<"c", "o", "n", "s", "t", "r", "u", "c", "t", "o", "r">> -> ObjectFunctionKey
      [] name = <<"_", "_", "p", "r", "o", "t", "o", "_", "_">> -> ObjectPrototypeKey
      [] OTHER -> <<>>

\* attrMap[name] ? attrMap[name] : name
LookupKey(name) == IF AttrMapGet(name) # <<>> THEN AttrMapGet(name) ELSE name

RECURSIVE Matches(_, _, _, _)
RECURSIVE ForEachAttrName(_, _, _, _, _)

\* ForEachAttrName with a strict conjunction: a key that names no attribute of
\* the element makes the result false.
RECURSIVE ForEachAttrNameStrict(_, _, _, _, _)
ForEachAttrNameStrict(nodeName, attributes, entries, n, filter) ==
    IF n > Len(entries) THEN filter
    ELSE LET at == {j \in DOMAIN attributes :
                        attributes[j].name = entries[n].key}
         IN  IF at = {} THEN FALSE
             ELSE ForEachAttrNameStrict(nodeName, attributes, entries, n + 1,
                      filter /\ Matches(nodeName, attributes,
                                        attributes[Min(at)].value,
                                        entries[n].matcher))

\* The forEach over Object.keys(matcher.attributes), from key n on, with the
\* running value of filter: a name the element lacks returns early and leaves
\* filter as it is; otherwise filter = filter && matches(...).
ForEachAttrName(nodeName, attributes, entries, n, filter) ==
    IF n > Len(entries) THEN filter
    ELSE LET at == {j \in DOMAIN attributes :
                        attributes[j].name = entries[n].key}
         IN  IF at = {}
             THEN ForEachAttrName(nodeName, attributes, entries, n + 1, filter)
             ELSE ForEachAttrName(nodeName, attributes, entries, n + 1,
                      filter /\ Matches(nodeName, attributes,
                                        attributes[Min(at)].value,
                                        entries[n].matcher))

\* matches(nodeName, attributes, value, matcher); a matcher of no handled type
\* returns undefined, which is falsy.
Matches(nodeName, attributes, value, matcher) ==
    CASE matcher.type = "boolean" -> TRUE
      [] matcher.type = "string" -> matcher.str = value
      [] matcher.type = "array" ->
             \E n \in DOMAIN matcher.list : matcher.list[n] = value
      [] matcher.type = "object" ->
             ForEachAttrName(nodeName, attributes, matcher.attributes, 1,
                 IF matcher.nodeName # <<>>
                 THEN matcher.nodeName = nodeName ELSE TRUE)
      [] OTHER -> FALSE

\* The callback of attributes.filter: whether the attribute is kept.
KeepsAttr(nodeName, attributes, attr, attrs) ==
    LET matcher == RuleGet(attrs, LookupKey(attr.name))
    IN  IF Falsy(matcher) THEN TRUE
        ELSE ~Matches(nodeName, attributes, attr.value, matcher)

Raws(attributes) == [n \in DOMAIN attributes |-> attributes[n].raw]

\* filterAttributes(element, attrs)
FilterAttributes(element, attrs) ==
    LET Kept(attr) ==
            KeepsAttr(element.nodeName, element.attributes, attr, attrs)
        filteredAttrs == SelectSeq(element.attributes, Kept)
    IN  [nodeName |-> element.nodeName,
         attributes |-> filteredAttrs,
         raw |-> Replace(element.raw, Join(Raws(element.attributes)),
                         Join(Raws(filteredAttrs)))]

---------------------------------------------------------------------------
(* The inputs of the calls.                                                *)

\* How many segments of the vocabulary an input string is made of.
MaxSegments == 2

\* How often a result is fed back into filterHtmlAttrs with the same rules.
MaxRefilters == 1

\* The vocabulary: opening tags with valueless, double quoted, single quoted
\* and unquoted attributes, single and double spaces, upper case, a self
\* closing slash, a repeated attribute name, a closing tag and text.
Segments ==
    { <<"<", "i", " ", "a", " ", "b", ">">>,
      <<"<", "i", " ", "b", ">">>,
      <<"<", "a", " ", "a", ">">>,
      <<"<", "i", " ", "a", "=", DQ, "$", "$", DQ, ">">>,
      <<"<", "/", "i", ">">>,
      <<"x">>,
      <<"<", "I", " ", " ", "B", "=", SQ, "y", SQ, " ", "c", "=", "z", "/", ">">>,
      <<"<", "b", " ", "a", "=", "z", "z", " ", "a", "=", "y", " ", "b", ">">> }

RECURSIVE Concats(_)
Concats(n) ==
    IF n = 0 THEN {<<>>}
    ELSE Concats(n - 1) \cup {s \o t : s \in Concats(n - 1), t \in Segments}

Inputs == Concats(MaxSegments)

RuleSets ==
    { NoRules,
      Rules(<<>>),
      Rules(<<Entry(<<"a">>, MBool(TRUE))>>),
      Rules(<<Entry(<<"a">>, MBool(TRUE)),
              Entry(<<"b">>, MObj(<<>>, <<Entry(<<"a">>, MStr(<<"z", "z">>))>>))>>),
      Rules(<<Entry(<<"b">>, MArr(<<<<"y">>, <<"z">>>>)),
              Entry(<<"c">>, MObj(<<"i">>, <<>>))>>),
      Rules(<<Entry(<<"b">>, MObj(<<>>, <<Entry(<<"c">>, MStr(<<"z">>)),
                                         Entry(<<"a">>, MStr(<<"z", "z">>))>>))>>) }

---------------------------------------------------------------------------
(* The state machine: calls of filterHtmlAttrs, one step per loop turn.    *)

NoTag == [nodeName |-> <<>>, attributeStr |-> <<>>, raw |-> <<>>,
          attributes |-> <<>>]

Init ==
    /\ tagLastIndex = 0
    /\ attrLastIndex = 0
    /\ pc = "idle"
    /\ htmlString = <<>>
    /\ filterAttrs = NoRules
    /\ elements = <<>>
    /\ cur = NoTag
    /\ filteredHtml = <<>>
    /\ k = 1
    /\ result = <<>>
    /\ refilters = 0

\* filterHtmlAttrs(s, R) is entered: without rules it returns s at once;
\* otherwise the accumulator starts as s and parseElements(s) begins.
Enter(s, R) ==
    /\ htmlString' = s
    /\ filterAttrs' = R
    /\ elements' = <<>>
    /\ cur' = NoTag
    /\ k' = 1
    /\ IF ~R.defined
       THEN /\ pc' = "done"
            /\ result' = s
            /\ filteredHtml' = <<>>
       ELSE /\ pc' = "tags"
            /\ result' = <<>>
            /\ filteredHtml' = s
    /\ UNCHANGED <<tagLastIndex, attrLastIndex>>

\* A caller calls filterHtmlAttrs(s, R).
Call(s, R) ==
    /\ pc = "idle"
    /\ refilters' = 0
    /\ Enter(s, R)

\* A caller filters the returned string again with the same rules.
Refilter ==
    /\ pc = "done"
    /\ refilters < MaxRefilters
    /\ refilters' = refilters + 1
    /\ Enter(result, filterAttrs)

\* The caller is done with the returned string.
Finish ==
    /\ pc = "done"
    /\ pc' = "idle"
    /\ htmlString' = <<>>
    /\ filterAttrs' = NoRules
    /\ elements' = <<>>
    /\ cur' = NoTag
    /\ filteredHtml' = <<>>
    /\ k' = 1
    /\ result' = <<>>
    /\ refilters' = 0
    /\ UNCHANGED <<tagLastIndex, attrLastIndex>>

\* The head of an opening tag: its node name and its attribute text.
TagHead(match) ==
    LET tagStr == match.m1
        index == IF IndexOf(tagStr, <<" ">>) # -1
                 THEN IndexOf(tagStr, <<" ">>) ELSE Len(tagStr)
    IN  [nodeName |-> ToLowerCase(Substring(tagStr, 0, index)),
         attributeStr |-> Trim(Substring(tagStr, index + 1, Len(tagStr))),
         raw |-> match.m0,
         attributes |-> <<>>]

\* TagStep with break in the place of continue: a closing tag ends the scan.
TagStepBreak ==
    /\ pc = "tags"
    /\ LET match == TagExec(htmlString, tagLastIndex)
       IN  /\ tagLastIndex' = match.lastIndex
           /\ IF ~match.found \/ CharAt(match.m1, 0) = "/"
              THEN pc' = "filter" /\ cur' = cur
              ELSE pc' = "attrs" /\ cur' = TagHead(match)
    /\ UNCHANGED <<attrLastIndex, htmlString, filterAttrs, elements,
                   filteredHtml, k, result, refilters>>

\* One turn of the outer while loop of parseElements, up to the inner loop.
TagStep ==
    /\ pc = "tags"
    /\ LET match == TagExec(htmlString, tagLastIndex)
       IN  /\ tagLastIndex' = match.lastIndex
           /\ IF ~match.found
              THEN pc' = "filter" /\ cur' = cur
              ELSE IF CharAt(match.m1, 0) = "/"
              THEN pc' = "tags" /\ cur' = cur
              ELSE pc' = "attrs" /\ cur' = TagHead(match)
    /\ UNCHANGED <<attrLastIndex, htmlString, filterAttrs, elements,
                   filteredHtml, k, result, refilters>>

\* The attribute record pushed for one match of attributeRegex.
AttrRecord(groups) ==
    [name |-> ToLowerCase(Or(groups.g1, groups.g5)),
     value |-> Or(groups.g2, Or(groups.g3, Or(groups.g4, <<>>))),
     raw |-> groups.g0]

\* One turn of the inner while loop of parseElements; when the regex finds
\* no more attributes the element is pushed.
AttrStep ==
    /\ pc = "attrs"
    /\ LET groups == AttrExec(cur.attributeStr, attrLastIndex)
       IN  /\ attrLastIndex' = groups.lastIndex
           /\ IF groups.found
              THEN /\ cur' = [cur EXCEPT !.attributes =
                                  Append(@, AttrRecord(groups))]
                   /\ UNCHANGED <<pc, elements>>
              ELSE /\ elements' = Append(elements,
                                      [nodeName |-> cur.nodeName,
                                       attributes |-> cur.attributes,
                                       raw |-> cur.raw])
                   /\ pc' = "tags"
                   /\ cur' = NoTag
    /\ UNCHANGED <<tagLastIndex, htmlString, filterAttrs, filteredHtml, k,
                   result, refilters>>

\* One turn of the forEach of filterHtmlAttrs.
FilterStep ==
    /\ pc = "filter"
    /\ k <= Len(elements)
    /\ filteredHtml' =
           Replace(filteredHtml, elements[k].raw,
                   FilterAttributes(elements[k], filterAttrs).raw)
    /\ k' = k + 1
    /\ UNCHANGED <<tagLastIndex, attrLastIndex, pc, htmlString, filterAttrs,
                   elements, cur, result, refilters>>

\* return filteredHtml
Return ==
    /\ pc = "filter"
    /\ k > Len(elements)
    /\ result' = filteredHtml
    /\ pc' = "done"
    /\ UNCHANGED <<tagLastIndex, attrLastIndex, htmlString, filterAttrs,
                   elements, cur, filteredHtml, k, refilters>>

Steps == TagStep \/ AttrStep \/ FilterStep \/ Return \/ Refilter \/ Finish

Next == (\E s \in Inputs, R \in RuleSets : Call(s, R)) \/ Steps

Spec == Init /\ [][Next]_vars

---------------------------------------------------------------------------
(* The calls of the documentation: the examples of the doc comment of      *)
(* filterHtmlAttrs and the attribute names attrMap answers for.            *)

ExampleInputs ==
    { <<"<", "d", "i", "v", " ", "d", "a", "t", "a", "-", "x", "=", DQ, "y", DQ, ">", "t", "<", "/", "d", "i", "v", ">">>,
      <<"<", "i", "n", "p", "u", "t", " ", "t", "y", "p", "e", "=", DQ, "t", "e", "x", "t", DQ, " ", "c", "l", "a", "s", "s", "=", DQ, "f", "o", "o", DQ, ">">>,
      <<"<", "d", "i", "v", " ", "c", "l", "a", "s", "s", "=", DQ, "f", "o", "o", DQ, ">">>,
      <<"<", "d", "i", "v", " ", "c", "l", "a", "s", "s", "=", DQ, "f", "o", "o", DQ, ">", "<", "i", "n", "p", "u", "t", " ", "t", "y", "p", "e", "=", DQ, "t", "e", "x", "t", DQ, " ", "c", "l", "a", "s", "s", "=", DQ, "f", "o", "o", DQ, "/", ">", "<", "/", "d", "i", "v", ">">>,
      <<"<", "l", "a", "b", "e", "l", " ", "f", "o", "r", "=", DQ, "x", DQ, " ", "c", "l", "a", "s", "s", "=", DQ, "y", DQ, " ", "c", "o", "n", "s", "t", "r", "u", "c", "t", "o", "r", ">">> }

ClassOfInput == Rules(<<Entry(<<"c", "l", "a", "s", "s">>, MObj(<<"i", "n", "p", "u", "t">>, <<>>))>>)

DataXTrue == Rules(<<Entry(<<"d", "a", "t", "a", "-", "x">>, MBool(TRUE))>>)

DataXIsY == Rules(<<Entry(<<"d", "a", "t", "a", "-", "x">>, MStr(<<"y">>))>>)

DataXIsZ == Rules(<<Entry(<<"d", "a", "t", "a", "-", "x">>, MStr(<<"z">>))>>)

ExampleRuleSets ==
    { DataXTrue, DataXIsY, DataXIsZ, ClassOfInput,
      Rules(<<Entry(<<"d", "a", "t", "a", "-", "x">>, MArr(<<<<"y">>, <<"z">>>>))>>),
      Rules(<<Entry(<<"c", "l", "a", "s", "s", "N", "a", "m", "e">>, MObj(<<"i", "n", "p", "u", "t">>, <<>>))>>),
      Rules(<<Entry(<<"h", "t", "m", "l", "F", "o", "r">>, MBool(TRUE)),
              Entry(<<"c", "l", "a", "s", "s", "N", "a", "m", "e">>, MBool(TRUE))>>),
      Rules(<<Entry(<<"f", "o", "r">>, MBool(TRUE)), Entry(<<"c", "l", "a", "s", "s">>, MBool(TRUE)),
              Entry(<<"c", "o", "n", "s", "t", "r", "u", "c", "t", "o", "r">>, MBool(TRUE))>>) }

NextExamples ==
    (\E s \in ExampleInputs, R \in ExampleRuleSets : Call(s, R)) \/ Steps

SpecExamples == Init /\ [][NextExamples]_vars

---------------------------------------------------------------------------
(* filterHtmlAttrs as a function: what a call returns on a module whose    *)
(* two regular expressions have their cursors at 0.                        *)

RECURSIVE ScanAttrs(_, _, _)
ScanAttrs(attributeStr, lastIndex, attributes) ==
    LET groups == AttrExec(attributeStr, lastIndex)
    IN  IF ~groups.found THEN attributes
        ELSE ScanAttrs(attributeStr, groups.lastIndex,
                       Append(attributes, AttrRecord(groups)))

RECURSIVE ScanTags(_, _, _)
ScanTags(str, lastIndex, found) ==
    LET match == TagExec(str, lastIndex)
    IN  IF ~match.found THEN found
        ELSE IF CharAt(match.m1, 0) = "/"
        THEN ScanTags(str, match.lastIndex, found)
        ELSE ScanTags(str, match.lastIndex,
                 Append(found,
                     [nodeName |-> TagHead(match).nodeName,
                      attributes |->
                          ScanAttrs(TagHead(match).attributeStr, 0, <<>>),
                      raw |-> match.m0]))

\* parseElements(str)
ParseElements(str) == ScanTags(str, 0, <<>>)

RECURSIVE ForEachElement(_, _, _, _)
ForEachElement(parsed, n, attrs, html) ==
    IF n > Len(parsed) THEN html
    ELSE ForEachElement(parsed, n + 1, attrs,
             Replace(html, parsed[n].raw,
                     FilterAttributes(parsed[n], attrs).raw))

\* filterHtmlAttrs(str, attrs)
FilterHtmlAttrs(str, attrs) ==
    IF ~attrs.defined THEN str
    ELSE ForEachElement(ParseElements(str), 1, attrs, str)

---------------------------------------------------------------------------
(* The claims.                                                             *)

\* The alias table as the specification states it: for and class only.
AliasKey(name) ==
    IF name = <<"f", "o", "r">> THEN <<"h", "t", "m", "l", "F", "o", "r">>
    ELSE IF name = <<"c", "l", "a", "s", "s">> THEN <<"c", "l", "a", "s", "s", "N", "a", "m", "e">>
    ELSE name

\* C1: without rules (undefined) and with the empty rule set, a call returns
\* its input string unchanged.
C1_Identity ==
    pc = "done" /\ filterAttrs.entries = <<>> => result = htmlString

\* C2: filtering a returned string again with the same rule set returns it
\* unchanged.
C2_Idempotent ==
    pc = "done" /\ refilters > 0 => result = htmlString

\* The attributes of an element that the claim C3 says survive: those with no
\* matcher registered under the alias-resolved name, or whose matcher does not
\* match.
Survivors(element, attrs) ==
    LET Survives(attr) ==
            ~(/\ RuleGet(attrs, AliasKey(attr.name)) # Undefined
              /\ Matches(element.nodeName, element.attributes, attr.value,
                         RuleGet(attrs, AliasKey(attr.name))))
    IN  SelectSeq(element.attributes, Survives)

\* C3: with a non-empty rule set, every opening tag of the returned string
\* holds exactly the attributes of the same tag of the input whose matcher is
\* not registered or does not match, in their order.
C3_DroppedIffMatched ==
    pc = "done" /\ filterAttrs.entries # <<>> =>
        LET out == ParseElements(result)
        IN  /\ Len(out) = Len(elements)
            /\ \A n \in DOMAIN elements :
                   Raws(out[n].attributes) =
                       Raws(Survivors(elements[n], filterAttrs))

\* C4: the rule of every parsed attribute is looked up under htmlFor for the
\* name for, under className for the name class and under the attribute's own
\* lowercased name otherwise, and the stored name is the lowercased name.
C4_AliasLookup ==
    \A n \in DOMAIN elements : \A j \in DOMAIN elements[n].attributes :
        LET attr == elements[n].attributes[j]
        IN  /\ LookupKey(attr.name) = AliasKey(attr.name)
            /\ attr.name = ToLowerCase(attr.name)
            /\ IndexOf(ToLowerCase(attr.raw), attr.name) = 0

HasAttr(element, name) ==
    \E j \in DOMAIN element.attributes : element.attributes[j].name = name

\* C5: with the rule set {class: {nodeName: 'input'}} the returned input tag
\* has no class attribute, and a div tag is returned unchanged.
C5_ClassOfInputRemoved ==
    pc = "done" /\ filterAttrs = ClassOfInput =>
        /\ htmlString = <<"<", "i", "n", "p", "u", "t", " ", "t", "y", "p", "e", "=", DQ, "t", "e", "x", "t", DQ, " ", "c", "l", "a", "s", "s", "=", DQ, "f", "o", "o", DQ, ">">>
               => ~HasAttr(ParseElements(result)[1], <<"c", "l", "a", "s", "s">>)
        /\ htmlString = <<"<", "d", "i", "v", " ", "c", "l", "a", "s", "s", "=", DQ, "f", "o", "o", DQ, ">">> => result = htmlString

\* C6: the data-x example returns exactly <div>t</div> under the rules
\* {'data-x': true} and {'data-x': 'y'}, and the input under {'data-x': 'z'}.
C6_ExactOutput ==
    pc = "done" /\ htmlString = <<"<", "d", "i", "v", " ", "d", "a", "t", "a", "-", "x", "=", DQ, "y", DQ, ">", "t", "<", "/", "d", "i", "v", ">">> =>
        /\ filterAttrs \in {DataXTrue, DataXIsY} => result = <<"<", "d", "i", "v", ">", "t", "<", "/", "d", "i", "v", ">">>
        /\ filterAttrs = DataXIsZ => result = htmlString

\* The input outside the attribute regions of its opening tags, in pieces: a
\* piece ends after the written node name of an opening tag and the next one
\* starts at the end of that tag's text, before its optional slash and its
\* closing bracket. Closing tags and text lie inside the pieces.
RECURSIVE FixedPieces(_, _, _, _)
FixedPieces(str, lastIndex, from, pieces) ==
    LET match == TagExec(str, lastIndex)
        start == match.lastIndex - Len(match.m0)
        index == IF IndexOf(match.m1, <<" ">>) # -1
                 THEN IndexOf(match.m1, <<" ">>) ELSE Len(match.m1)
    IN  IF ~match.found THEN Append(pieces, Substring(str, from, Len(str)))
        ELSE IF CharAt(match.m1, 0) = "/"
        THEN FixedPieces(str, match.lastIndex, from, pieces)
        ELSE FixedPieces(str, match.lastIndex, start + 1 + Len(match.m1),
                 Append(pieces, Substring(str, from, start + 1 + index)))

\* Whether out, from offset pos on, is the pieces n, n + 1, ... in order with
\* any text between two of them, the last piece ending out.
RECURSIVE FitsFrom(_, _, _, _)
FitsFrom(out, pos, pieces, n) ==
    LET piece == pieces[n]
        hits == {i \in pos..(Len(out) - Len(piece)) :
                     SubSeq(out, i + 1, i + Len(piece)) = piece}
    IN  IF n = Len(pieces)
        THEN /\ Len(out) - Len(piece) \in hits
             /\ n = 1 => out = piece
        ELSE /\ hits # {}
             /\ n = 1 => 0 \in hits
             /\ FitsFrom(out, Min(hits) + Len(piece), pieces, n + 1)

\* C7: the returned string is the input with nothing changed outside the
\* attribute regions of its opening tags: text, closing tags, tag names and
\* their order are as in the input.
C7_Frame ==
    pc = "done" =>
        FitsFrom(result, 0, FixedPieces(htmlString, 0, 0, <<>>), 1)

\* The structured matchers the claim C8 is checked for: with and without a
\* node name, with up to two attribute conditions, nested ones included.
NestedMatchers ==
    { MBool(TRUE), MStr(<<"z", "z">>), MArr(<<<<"y">>, <<"z">>>>),
      MObj(<<"i">>, <<Entry(<<"b">>, MStr(<<"y">>))>>) }

MatcherEntries ==
    {Entry(key, m) : key \in {<<"a">>, <<"b">>, <<"c">>}, m \in NestedMatchers}

\* The lists of entries an object can hold: no key twice.
EntryLists ==
    {<<>>} \cup {<<e>> : e \in MatcherEntries}
           \cup {p \in MatcherEntries \X MatcherEntries : p[1].key # p[2].key}

StructuredMatchers ==
    {MObj(nodeName, entries) :
        nodeName \in {<<>>, <<"i">>, <<"b">>}, entries \in EntryLists}

\* What the claim C8 says matches returns: for a structured matcher, the node
\* name condition and, for every key that names an attribute of the element,
\* the nested matcher on the value of the first attribute of that name.
RECURSIVE Satisfies(_, _, _, _)
Satisfies(nodeName, attributes, value, matcher) ==
    CASE matcher.type = "boolean" -> TRUE
      [] matcher.type = "string" -> matcher.str = value
      [] matcher.type = "array" ->
             value \in {matcher.list[n] : n \in DOMAIN matcher.list}
      [] matcher.type = "object" ->
             /\ matcher.nodeName = <<>> \/ matcher.nodeName = nodeName
             /\ \A n \in DOMAIN matcher.attributes :
                    LET at == {j \in DOMAIN attributes :
                                  attributes[j].name = matcher.attributes[n].key}
                    IN  at # {} =>
                            Satisfies(nodeName, attributes,
                                      attributes[Min(at)].value,
                                      matcher.attributes[n].matcher)
      [] OTHER -> FALSE

\* C8: for the element being filtered and every structured matcher, matches
\* returns true exactly when the node name condition holds and every key that
\* names an attribute of the element is satisfied by the first attribute of
\* that name; a key that names no attribute of the element is skipped.
C8_StructuredMatcher ==
    pc = "filter" /\ k <= Len(elements) =>
        \A j \in DOMAIN elements[k].attributes :
            \A matcher \in StructuredMatchers :
                Matches(elements[k].nodeName, elements[k].attributes,
                        elements[k].attributes[j].value, matcher)
                    = Satisfies(elements[k].nodeName, elements[k].attributes,
                                elements[k].attributes[j].value, matcher)

\* An element with a repeated attribute name is being filtered by a rule set
\* whose structured matcher names an attribute the element has and one it
\* lacks.
C8_Witness ==
    /\ pc = "filter" /\ k <= Len(elements)
    /\ \E j \in DOMAIN elements[k].attributes :
           LET matcher == RuleGet(filterAttrs,
                              LookupKey(elements[k].attributes[j].name))
           IN  /\ matcher.type = "object"
               /\ \E n \in DOMAIN matcher.attributes :
                      HasAttr(elements[k], matcher.attributes[n].key)
               /\ \E n \in DOMAIN matcher.attributes :
                      ~HasAttr(elements[k], matcher.attributes[n].key)
    /\ \E i, j \in DOMAIN elements[k].attributes :
           /\ i < j
           /\ elements[k].attributes[i].name = elements[k].attributes[j].name
           /\ elements[k].attributes[i].value # elements[k].attributes[j].value

\* C9: whenever a call can start, the cursors of both regular expressions are
\* 0, and every call returns what the same call returns on a fresh module.
C9_CallsIndependent ==
    /\ pc \in {"idle", "done"} => tagLastIndex = 0 /\ attrLastIndex = 0
    /\ pc = "done" => result = FilterHtmlAttrs(htmlString, filterAttrs)

\* A call that follows another call has returned, after both regular
\* expressions scanned an input with a closing tag and attributes.
C9_Witness ==
    /\ pc = "done" /\ refilters > 0
    /\ \E n \in DOMAIN elements : Len(elements[n].attributes) >= 2
    /\ IndexOf(htmlString, <<"<", "/">>) >= 0

\* The offsets in str of its opening tags.
RECURSIVE TagOffsets(_, _, _)
TagOffsets(str, lastIndex, offsets) ==
    LET match == TagExec(str, lastIndex)
    IN  IF ~match.found THEN offsets
        ELSE IF CharAt(match.m1, 0) = "/"
        THEN TagOffsets(str, match.lastIndex, offsets)
        ELSE TagOffsets(str, match.lastIndex,
                        Append(offsets, match.lastIndex - Len(match.m0)))

PairwiseDifferent(strs) ==
    \A i, j \in DOMAIN strs : i # j => strs[i] # strs[j]

\* C10: when the opening tags of the input are pairwise different, at every
\* turn of the forEach the first occurrence of the element's raw text in the
\* accumulator is at the element's own tag: its offset in the input, moved by
\* what the turns before it added or removed.
C10_SplicePrecise ==
    pc = "filter" /\ k <= Len(elements) /\ PairwiseDifferent(Raws(elements))
        => IndexOf(filteredHtml, elements[k].raw)
               = TagOffsets(htmlString, 0, <<>>)[k]
                     + Len(filteredHtml) - Len(htmlString)

=============================================================================
